---- MODULE Spec2Model ----
(***************************************************************************)
(* State-machine model of the Cougar 500k HID driver (hid-cougar.c).       *)
(*                                                                         *)
(* Every HID interface is a process that runs cougar_probe, then           *)
(* cougar_remove, then the devres release of its probe.  Raw reports are   *)
(* handled by cougar_raw_event, which runs concurrently with the probe and *)
(* remove of sibling interfaces.  struct cougar_shared objects live in     *)
(* numbered memory slots so that a pointer kept after kfree() is visible   *)
(* as such.                                                                *)
(*                                                                         *)
(* A step of a process is one access to memory that other processes can    *)
(* see (an entry, the list, the mutex, the key map), together with the     *)
(* statements before and after it that touch only the process's own        *)
(* interface.                                                              *)
(***************************************************************************)
EXTENDS Integers, Sequences, FiniteSets, TLC

VARIABLES
    phys,               \* hdev->phys of every interface (fixed after Init)
    physAddr,           \* address of hdev->phys (fixed after Init)
    usage,              \* hdev->collection->usage of every interface
    cougar_g6_is_space, \* module parameter g6_is_space
    cougar_mapping,     \* the key map, a sequence of <<code, key>>
    pc,                 \* where every interface is in probe / remove
    cougar,             \* struct cougar of every interface (drvdata)
    devres,             \* is cougar_remove_shared_data registered with devm
    hw,                 \* "stopped", "started" or "open"
    inputReg,           \* does the interface have a registered hid_input
    mem,                \* the slots of struct cougar_shared
    cougar_udev_list,   \* the registry: a sequence of slots
    cougar_udev_list_lock, \* 0, or the interface that holds the mutex
    ev,                 \* the cougar_raw_event call in flight, per interface
    after,              \* where cougar_remove_shared_data returns to
    snap,               \* the registry as the probe in progress found it
    calls,              \* what each binding has called on its entry so far
    probes,             \* number of probes started so far
    rdesc,              \* the report descriptor handed to cougar_report_fixup
    out                 \* what the cougar_raw_event that just returned sent to a sink

vars == <<phys, physAddr, usage, cougar_g6_is_space, cougar_mapping, pc, cougar,
          devres, hw, inputReg, mem, cougar_udev_list, cougar_udev_list_lock,
          ev, after, snap, calls, probes, rdesc, out>>

config == <<phys, physAddr, usage, cougar_g6_is_space, rdesc>>

(***************************************************************************)
(* Bounds of the model.                                                    *)
(***************************************************************************)
\* probes (attach attempts) started in one behaviour
MaxProbes == 3
\* slots the allocator can hand out for struct cougar_shared
MaxSlots == 3

Ifaces == {1, 2, 3}
Slots == 1 .. MaxSlots
NULL == 0

(***************************************************************************)
(* Program constants.                                                      *)
(***************************************************************************)
COUGAR_FIELD_CODE == 1
COUGAR_FIELD_ACTION == 2
COUGAR_KEY_G1 == 131
COUGAR_KEY_G2 == 132
COUGAR_KEY_G3 == 133
COUGAR_KEY_G4 == 134
COUGAR_KEY_G5 == 135
COUGAR_KEY_G6 == 120
COUGAR_KEY_FN == 13
COUGAR_KEY_LOCK == 110

\* hdev->collection->usage: the vendor usage, the keyboard usage, any other
Usages == {"COUGAR_VENDOR_USAGE", "HID_GD_KEYBOARD", "HID_GD_MOUSE"}

\* the table as compiled in, terminator { 0, 0 } included
InitialMapping ==
    << <<COUGAR_KEY_G6, "KEY_SPACE">>,
       <<COUGAR_KEY_G1, "KEY_F13">>,
       <<COUGAR_KEY_G2, "KEY_F14">>,
       <<COUGAR_KEY_G3, "KEY_F15">>,
       <<COUGAR_KEY_G4, "KEY_F16">>,
       <<COUGAR_KEY_G5, "KEY_F17">>,
       <<COUGAR_KEY_LOCK, "KEY_SCREENLOCK">>,
       <<0, "0">> >>

(***************************************************************************)
(* C strings and compare_device_paths.                                     *)
(* A path is a sequence of characters; position k (0-based) of a string of *)
(* length n holds its k+1st character, and position n the terminating NUL. *)
(***************************************************************************)
Min(a, b) == IF a < b THEN a ELSE b

\* An address is <<bits 32 and up, bits 16..31, bits 0..15>>.
\* (int)(NULL - p) for a char pointer p: the low 32 bits of the negated
\* address, read as a signed 32-bit integer.
NullMinus(p) ==
    LET lo == (65536 - p[3]) % 65536
        hi == (65536 - p[2] - (IF p[3] # 0 THEN 1 ELSE 0)) % 65536
    IN  IF hi >= 32768 THEN (hi - 65536) * 65536 + lo ELSE hi * 65536 + lo

CharAt(s, k) == IF k < Len(s) THEN s[k + 1] ELSE "NUL"

\* strrchr(s, c): the 0-based position of the last c, or -1 for a NULL result
StrRChr(s, c) ==
    LET hits == {k \in 0 .. Len(s) - 1 : s[k + 1] = c}
    IN  IF hits = {} THEN -1 ELSE CHOOSE k \in hits : \A j \in hits : j <= k

\* strncmp(a, b, n) = 0: equal up to n characters or up to the first NUL
StrNEq(a, b, n) ==
    \A k \in 0 .. Min(n, Min(Len(a), Len(b)) + 1) - 1 : CharAt(a, k) = CharAt(b, k)

\* strrchr(hdev->phys, separator) - hdev->phys, converted to int.  When the
\* separator is absent strrchr returns NULL and the difference is whatever
\* the address of phys makes it.
SepOffset(i, separator) ==
    LET k == StrRChr(phys[i], separator)
    IN  IF k >= 0 THEN k ELSE NullMinus(physAddr[i])

compare_device_paths(a, b, separator) ==
    LET n1 == SepOffset(a, separator)
        n2 == SepOffset(b, separator)
    IN  IF n1 # n2 \/ n1 <= 0 \/ n2 <= 0
        THEN FALSE
        ELSE StrNEq(phys[a], phys[b], n1)

(***************************************************************************)
(* struct cougar_shared, struct cougar, kref.                              *)
(***************************************************************************)
\* memory as kzalloc() returns it.  devFreed is not a field of the struct:
\* it records that the interface shared->dev points to has been detached
\* since, so that the HID core may have freed its struct hid_device
ZeroShared ==
    [alloc |-> TRUE, kref |-> 0, enabled |-> FALSE, dev |-> NULL, input |-> NULL,
     devFreed |-> FALSE]

\* a slot that was never allocated
FreeShared ==
    [alloc |-> FALSE, kref |-> 0, enabled |-> FALSE, dev |-> NULL, input |-> NULL,
     devFreed |-> FALSE]

\* no struct cougar: before devm_kzalloc and after the devres release
NoCougar == [alloc |-> FALSE, special_intf |-> FALSE, shared |-> NULL]

\* a saturated refcount_t: no get or put changes it any more
REFCOUNT_SATURATED == -1

\* kref_init
KrefInit == 1

\* a faulty kref_get, which takes the reference without counting it
KrefGetUncounted(v) == {v}

\* kref_get: the values the counter can have afterwards.  A get on a counter
\* that is already 0 is a use after free: refcount_t either resurrects the
\* object (plain increment) or saturates.
KrefGet(v) ==
    IF v = REFCOUNT_SATURATED THEN {REFCOUNT_SATURATED}
    ELSE IF v = 0 THEN {1, REFCOUNT_SATURATED}
    ELSE {v + 1}

\* kref_put: the counter afterwards; a put on 0 or on a saturated counter
\* saturates and never releases
KrefPut(v) == IF v >= 1 THEN v - 1 ELSE REFCOUNT_SATURATED

\* kref_put calls the release function iff the counter dropped from 1 to 0
KrefPutReleases(v) == v = 1

InList(s) == \E k \in 1 .. Len(cougar_udev_list) : cougar_udev_list[k] = s

\* list_del
ListDel(s) == SelectSeq(cougar_udev_list, LAMBDA x : x # s)

\* the registry as an observer under the lock sees it: the entries in list
\* order, each with its address and its fields
Registry ==
    [k \in 1 .. Len(cougar_udev_list) |->
        [slot |-> cougar_udev_list[k],
         kref |-> mem[cougar_udev_list[k]].kref,
         enabled |-> mem[cougar_udev_list[k]].enabled,
         dev |-> mem[cougar_udev_list[k]].dev,
         input |-> mem[cougar_udev_list[k]].input]]

NoSnap == [i |-> 0, reg |-> <<>>, fail |-> "none"]

\* no cougar_raw_event has just returned
NoOut == [by |-> 0, sent |-> <<>>, ret |-> "none"]

\* compare_device_paths(hdev, shared->dev, "/") as cougar_get_shared_data
\* calls it on the entry in slot s: its result, or, when shared->dev points
\* to a struct hid_device that may have been freed, whatever the memory
\* read there makes of it
ComparesEqual(i, s) ==
    IF mem[s].devFreed THEN BOOLEAN
    ELSE {compare_device_paths(i, mem[s].dev, "/")}

\* cougar_get_shared_data: the entries the loop over the list can return,
\* the first one that compares equal, and NULL when none does
cougar_get_shared_data(i) ==
    LET n == Len(cougar_udev_list)
        first == {k \in 1 .. n :
                     /\ TRUE \in ComparesEqual(i, cougar_udev_list[k])
                     /\ \A j \in 1 .. (k - 1) :
                           FALSE \in ComparesEqual(i, cougar_udev_list[j])}
    IN  {cougar_udev_list[k] : k \in first}
        \cup (IF \A k \in 1 .. n : FALSE \in ComparesEqual(i, cougar_udev_list[k])
              THEN {NULL} ELSE {})

\* the memory once interface i is detached: the entries it created keep
\* pointing to its struct hid_device
DevDetached(m, i) ==
    [s \in Slots |-> IF m[s].dev = i THEN [m[s] EXCEPT !.devFreed = TRUE] ELSE m[s]]

(***************************************************************************)
(* The interfaces the model is run with.  A path is hdev->phys.            *)
(***************************************************************************)
PathA0 == <<"a", "/", "0">>
PathA1 == <<"a", "/", "1">>
PathA2 == <<"a", "/", "2">>
PathB0 == <<"b", "/", "0">>
PathAA0 == <<"a", "a", "/", "0">>
PathRoot == <<"/", "0">>
PathNoSep == <<"0">>

\* addresses of hdev->phys: the low 32 bits of AddrLow make the int
\* difference NULL - phys negative, those of AddrHigh and AddrHigh2 (two
\* addresses 4 GiB apart) make it positive
AddrLow == <<0, 4096, 64>>
AddrHigh == <<0, 36864, 64>>
AddrHigh2 == <<1, 36864, 64>>

\* where the three struct hid_device are allocated
AddrChoices ==
    {(1 :> AddrHigh @@ 2 :> AddrHigh2 @@ 3 :> AddrLow),
     (1 :> AddrLow @@ 2 :> AddrHigh @@ 3 :> AddrHigh2)}

\* the roles of the three interfaces: a keyboard, its vendor interface and
\* its mouse interface; or a keyboard, its vendor interface and a second
\* keyboard
OneDevice ==
    (1 :> "HID_GD_KEYBOARD" @@ 2 :> "COUGAR_VENDOR_USAGE" @@ 3 :> "HID_GD_MOUSE")

TwoDevices ==
    (1 :> "HID_GD_KEYBOARD" @@ 2 :> "COUGAR_VENDOR_USAGE" @@ 3 :> "HID_GD_KEYBOARD")

\* the paths that the interfaces can have
PhysChoices ==
    {(1 :> p1 @@ 2 :> p2 @@ 3 :> p3) :
        p1 \in {PathA0, PathRoot, PathNoSep},
        p2 \in {PathA1, PathB0, PathAA0, PathRoot, PathNoSep},
        p3 \in {PathA2, PathB0}}

\* the paths of the interfaces of one device and of a second device
UsualPhys == (1 :> PathA0 @@ 2 :> PathA1 @@ 3 :> PathB0)

\* raw reports: report id, code, action; and a report of the report id
\* alone
Codes == {COUGAR_KEY_G6, COUGAR_KEY_G1, COUGAR_KEY_FN}
Actions == {0, 1}
Payloads == {<<0, c, a>> : c \in Codes, a \in Actions} \cup {<<0>>}

\* no cougar_raw_event in flight
NoEvent == [pc |-> "idle", data |-> <<>>, code |-> 0, action |-> 0]

InitState ==
    /\ cougar_mapping = InitialMapping
    /\ pc = [i \in Ifaces |-> "detached"]
    /\ cougar = [i \in Ifaces |-> NoCougar]
    /\ devres = [i \in Ifaces |-> FALSE]
    /\ hw = [i \in Ifaces |-> "stopped"]
    /\ inputReg = [i \in Ifaces |-> FALSE]
    /\ mem = [s \in Slots |-> FreeShared]
    /\ cougar_udev_list = <<>>
    /\ cougar_udev_list_lock = 0
    /\ ev = [i \in Ifaces |-> NoEvent]
    /\ after = [i \in Ifaces |-> "none"]
    /\ snap = NoSnap
    /\ calls = [i \in Ifaces |-> <<>>]
    /\ probes = 0
    /\ out = NoOut

(***************************************************************************)
(* cougar_report_fixup.  The descriptor is a buffer of which the first     *)
(* size bytes are the descriptor; what lies behind them is memory of       *)
(* someone else, which a read or write past the descriptor reaches.        *)
(***************************************************************************)
\* HID_MAX_USAGES of include/linux/hid.h
HID_MAX_USAGES == 12288

\* how many times the fixup is applied to one descriptor
MaxFixups == 2

\* bytes of the buffer: offsets 0 .. BufLen - 1
BufLen == 118

\* no descriptor under consideration
NoDescriptor == [size |-> 0, buf |-> <<>>, orig |-> <<>>, n |-> 0]

\* a buffer with the given bytes at offsets 2, 3, 115 and 116
Buffer(b2, b3, lo, hi) ==
    [k \in 1 .. BufLen |->
        CASE k = 3 -> b2
          [] k = 4 -> b3
          [] k = 116 -> lo
          [] k = 117 -> hi
          [] OTHER -> 5]

\* the descriptors the fixup is run on: mouse (0x09 0x02) and other, with
\* usage counts below, at and above HID_MAX_USAGES, long enough for the
\* field or not
Descriptors ==
    {[size |-> s, buf |-> Buffer(b2, b3, lo, hi), orig |-> Buffer(b2, b3, lo, hi),
      n |-> 0] :
        s \in {4, 116, 117, 118}, b2 \in {9, 5}, b3 \in {2, 6},
        lo \in {0, 1, 255}, hi \in {47, 48, 255}}

\* rdesc[k] of the C code
RdescAt(buf, k) == buf[k + 1]

\* a faulty fixup, which leaves a count equal to HID_MAX_USAGES alone
FixupAboveOnly(buf) ==
    IF /\ RdescAt(buf, 2) = 9
       /\ RdescAt(buf, 3) = 2
       /\ RdescAt(buf, 115) + RdescAt(buf, 116) * 256 > HID_MAX_USAGES
    THEN [buf EXCEPT ![116] = (HID_MAX_USAGES - 1) % 256,
                     ![117] = (HID_MAX_USAGES - 1) \div 256]
    ELSE buf

\* cougar_report_fixup: the buffer afterwards
cougar_report_fixup(buf) ==
    IF /\ RdescAt(buf, 2) = 9
       /\ RdescAt(buf, 3) = 2
       /\ RdescAt(buf, 115) + RdescAt(buf, 116) * 256 >= HID_MAX_USAGES
    THEN [buf EXCEPT ![116] = (HID_MAX_USAGES - 1) % 256,
                     ![117] = (HID_MAX_USAGES - 1) \div 256]
    ELSE buf

\* the HID core calls cougar_report_fixup on the descriptor
ReportFixup ==
    /\ rdesc.n < MaxFixups
    /\ rdesc.size > 0
    /\ rdesc' = [rdesc EXCEPT !.buf = cougar_report_fixup(@), !.n = @ + 1]
    /\ UNCHANGED <<phys, physAddr, usage, cougar_g6_is_space, cougar_mapping, pc,
                   cougar, devres, hw, inputReg, mem, cougar_udev_list,
                   cougar_udev_list_lock, ev, after, snap, calls, probes, out>>

\* the usual paths with either set of roles and either setting of
\* g6_is_space, or any of the paths with the roles of one device
Init ==
    /\ \/ /\ phys \in {(1 :> PathA0 @@ 2 :> PathA1 @@ 3 :> PathA2), UsualPhys}
          /\ usage \in {OneDevice, TwoDevices}
          /\ physAddr = (1 :> AddrLow @@ 2 :> AddrHigh @@ 3 :> AddrHigh2)
          /\ cougar_g6_is_space \in {0, 1}
       \/ /\ phys \in PhysChoices
          /\ usage = OneDevice
          /\ physAddr \in AddrChoices
          /\ cougar_g6_is_space = 1
    /\ rdesc = NoDescriptor
    /\ InitState

\* one device with three interfaces, or a device with two and the keyboard
\* of a second device
InitConc ==
    /\ \/ phys = (1 :> PathA0 @@ 2 :> PathA1 @@ 3 :> PathA2) /\ usage = OneDevice
       \/ phys = UsualPhys /\ usage = TwoDevices
    /\ physAddr = (1 :> AddrLow @@ 2 :> AddrHigh @@ 3 :> AddrHigh2)
    /\ cougar_g6_is_space = 0
    /\ rdesc = NoDescriptor
    /\ InitState

\* no interface yet, and one of the descriptors
InitFixup ==
    /\ phys = UsualPhys /\ usage = OneDevice
    /\ physAddr = (1 :> AddrLow @@ 2 :> AddrHigh @@ 3 :> AddrHigh2)
    /\ cougar_g6_is_space = 1
    /\ rdesc \in Descriptors
    /\ InitState

(***************************************************************************)
(* cougar_probe.                                                           *)
(***************************************************************************)
IsKeyboard(i) == usage[i] = "HID_GD_KEYBOARD"
IsVendor(i) == usage[i] = "COUGAR_VENDOR_USAGE"

\* devm_kzalloc fails (-ENOMEM), hid_parse fails or hid_hw_start fails:
\* nothing is started and nothing is registered; "fail:" clears drvdata
\* and the driver core frees cougar
ProbeFailEarly(i) ==
    /\ pc[i] = "detached"
    /\ out' = NoOut
    /\ UNCHANGED <<config, cougar_mapping, pc, cougar, devres, hw, inputReg, mem,
                   cougar_udev_list, cougar_udev_list_lock, ev, after, snap, calls,
                   probes>>

\* devm_kzalloc, hid_set_drvdata, hid_parse, special_intf, hid_hw_start.
\* With HID_CONNECT_DEFAULT the input layer registers a hid_input for the
\* interface (or, for want of a usable report, none); with
\* HID_CONNECT_HIDRAW it registers none.
ProbeStart(i) ==
    /\ pc[i] = "detached"
    /\ probes < MaxProbes
    /\ probes' = probes + 1
    /\ cougar' = [cougar EXCEPT ![i] =
                     [alloc |-> TRUE, special_intf |-> IsVendor(i), shared |-> NULL]]
    /\ hw' = [hw EXCEPT ![i] = "started"]
    /\ \E registered \in (IF IsKeyboard(i) THEN BOOLEAN ELSE {~IsVendor(i)}) :
           inputReg' = [inputReg EXCEPT ![i] = registered]
    /\ pc' = [pc EXCEPT ![i] = "bind"]
    /\ out' = NoOut
    /\ UNCHANGED <<config, cougar_mapping, devres, mem, cougar_udev_list,
                   cougar_udev_list_lock, ev, after, snap, calls>>

(***************************************************************************)
(* cougar_bind_shared_data.  Each of the three steps below starts with     *)
(* mutex_lock and leaves the mutex held.                                   *)
(***************************************************************************)
\* devm_add_action: registered (TRUE) or -ENOMEM (FALSE)
DevmAddActionResults == BOOLEAN

\* the rest of the function once shared is known: cougar->shared = shared,
\* then devm_add_action
BindAttach(i, s) ==
    /\ cougar' = [cougar EXCEPT ![i].shared = s]
    /\ \E registered \in DevmAddActionResults :
          /\ devres' = [devres EXCEPT ![i] = registered]
          /\ pc' = [pc EXCEPT ![i] = IF registered THEN "bind_out" ELSE "bind_devm_fail"]
          /\ snap' = [i |-> i, reg |-> Registry,
                      fail |-> IF registered THEN "none" ELSE "devm_add_action"]
    /\ out' = NoOut

\* cougar_get_shared_data found an entry: kref_get
BindJoin(i) ==
    /\ pc[i] = "bind"
    /\ cougar_udev_list_lock = 0
    /\ cougar_udev_list_lock' = i
    /\ \E s \in cougar_get_shared_data(i) \ {NULL} :
          /\ \E v \in KrefGet(mem[s].kref) : mem' = [mem EXCEPT ![s].kref = v]
          /\ BindAttach(i, s)
    /\ UNCHANGED <<config, cougar_mapping, hw, inputReg, cougar_udev_list, ev, after,
                   calls, probes>>

\* is slot s referred to: by the list, or by the pointer of a struct cougar
Referenced(s, list, cg) ==
    \/ \E k \in 1 .. Len(list) : list[k] = s
    \/ \E j \in Ifaces : cg[j].shared = s

\* the addresses kzalloc can return: free memory that a stale pointer still
\* refers to, or free memory that nothing refers to (one slot stands for
\* all of these)
KzallocChoices ==
    LET free == {s \in Slots : ~mem[s].alloc}
        stale == {s \in free : Referenced(s, cougar_udev_list, cougar)}
        fresh == free \ stale
    IN  stale \cup (IF fresh = {} THEN {} ELSE {CHOOSE s \in fresh : \A r \in fresh : s <= r})

\* the entry that cougar_bind_shared_data creates for hdev: kzalloc,
\* kref_init, shared->dev = hdev
NewShared(i) == [ZeroShared EXCEPT !.kref = KrefInit, !.dev = i]

\* no entry found: kzalloc, kref_init, shared->dev = hdev, list_add_tail
BindCreate(i) ==
    /\ pc[i] = "bind"
    /\ cougar_udev_list_lock = 0
    /\ cougar_udev_list_lock' = i
    /\ NULL \in cougar_get_shared_data(i)
    /\ \E s \in KzallocChoices :
          /\ mem' = [mem EXCEPT ![s] = NewShared(i)]
          /\ cougar_udev_list' = Append(cougar_udev_list, s)
          /\ BindAttach(i, s)
    /\ UNCHANGED <<config, cougar_mapping, hw, inputReg, ev, after, calls, probes>>

\* no entry found and kzalloc fails: error = -ENOMEM, goto out
BindNoMem(i) ==
    /\ pc[i] = "bind"
    /\ cougar_udev_list_lock = 0
    /\ cougar_udev_list_lock' = i
    /\ NULL \in cougar_get_shared_data(i)
    /\ snap' = [i |-> i, reg |-> Registry, fail |-> "kzalloc"]
    /\ pc' = [pc EXCEPT ![i] = "bind_out_nomem"]
    /\ out' = NoOut
    /\ UNCHANGED <<config, cougar_mapping, cougar, devres, hw, inputReg, mem,
                   cougar_udev_list, ev, after, calls, probes>>

\* out: mutex_unlock, return 0
BindUnlock(i) ==
    /\ pc[i] = "bind_out"
    /\ cougar_udev_list_lock' = 0
    /\ pc' = [pc EXCEPT ![i] = "bound"]
    /\ out' = NoOut
    /\ UNCHANGED <<config, cougar_mapping, cougar, devres, hw, inputReg, mem,
                   cougar_udev_list, ev, after, snap, calls, probes>>

\* out: mutex_unlock, return -ENOMEM; cougar_probe goes to
\* fail_stop_and_cleanup
BindUnlockNoMem(i) ==
    /\ pc[i] = "bind_out_nomem"
    /\ cougar_udev_list_lock' = 0
    /\ pc' = [pc EXCEPT ![i] = "fail_stop"]
    /\ out' = NoOut
    /\ UNCHANGED <<config, cougar_mapping, cougar, devres, hw, inputReg, mem,
                   cougar_udev_list, ev, after, snap, calls, probes>>

\* a faulty error path, which unlocks and returns the error without
\* calling cougar_remove_shared_data
BindDevmFailNoRelease(i) ==
    /\ pc[i] = "bind_devm_fail"
    /\ cougar_udev_list_lock' = 0
    /\ pc' = [pc EXCEPT ![i] = "fail_stop"]
    /\ out' = NoOut
    /\ UNCHANGED <<config, cougar_mapping, cougar, devres, hw, inputReg, mem,
                   cougar_udev_list, ev, after, snap, calls, probes>>

\* devm_add_action failed: mutex_unlock, then cougar_remove_shared_data
\* inline, then return error
BindDevmFail(i) ==
    /\ pc[i] = "bind_devm_fail"
    /\ cougar_udev_list_lock' = 0
    /\ pc' = [pc EXCEPT ![i] = "remove_shared"]
    /\ after' = [after EXCEPT ![i] = "fail_stop"]
    /\ out' = NoOut
    /\ UNCHANGED <<config, cougar_mapping, cougar, devres, hw, inputReg, mem,
                   cougar_udev_list, ev, snap, calls, probes>>

\* fail_stop_and_cleanup after cougar_bind_shared_data returned an error:
\* hid_hw_stop, hid_set_drvdata(hdev, NULL), return error.  No devres
\* action is registered; the driver core frees struct cougar.
FailStop(i) ==
    /\ pc[i] = "fail_stop"
    /\ hw' = [hw EXCEPT ![i] = "stopped"]
    /\ inputReg' = [inputReg EXCEPT ![i] = FALSE]
    /\ cougar' = [cougar EXCEPT ![i] = NoCougar]
    /\ pc' = [pc EXCEPT ![i] = "detached"]
    /\ snap' = IF snap.i = i THEN NoSnap ELSE snap
    /\ calls' = [calls EXCEPT ![i] = <<>>]
    /\ mem' = DevDetached(mem, i)
    /\ out' = NoOut
    /\ UNCHANGED <<config, cougar_mapping, devres, cougar_udev_list,
                   cougar_udev_list_lock, ev, after, probes>>

(***************************************************************************)
(* cougar_probe after cougar_bind_shared_data returned 0.                  *)
(***************************************************************************)
\* the target of G6 that cougar_fix_g6_mapping writes
G6Target == IF cougar_g6_is_space # 0 THEN "KEY_SPACE" ELSE "KEY_F18"

\* the positions the loop of cougar_fix_g6_mapping and of cougar_raw_event
\* visits: those before the first entry with code 0
Scanned(map) ==
    {k \in 1 .. Len(map) : \A j \in 1 .. k : map[j][1] # 0}

\* the first scanned position that holds code, or 0
Lookup(map, code) ==
    LET hits == {k \in Scanned(map) : map[k][1] = code}
    IN  IF hits = {} THEN 0 ELSE CHOOSE k \in hits : \A j \in hits : k <= j

\* cougar_fix_g6_mapping
FixedMapping(map) ==
    LET k == Lookup(map, COUGAR_KEY_G6)
    IN  IF k = 0 THEN map ELSE [map EXCEPT ![k] = <<COUGAR_KEY_G6, G6Target>>]

\* keyboard interface: cougar_fix_g6_mapping(hdev)
KbdFixG6(i) ==
    /\ pc[i] = "bound"
    /\ IsKeyboard(i)
    /\ cougar_mapping' = FixedMapping(cougar_mapping)
    /\ pc' = [pc EXCEPT ![i] = "set_sink"]
    /\ out' = NoOut
    /\ UNCHANGED <<config, cougar, devres, hw, inputReg, mem, cougar_udev_list,
                   cougar_udev_list_lock, ev, after, snap, calls, probes>>

\* a faulty loop over hdev->inputs, which records the input and leaves
\* shared->enabled as it is
SinkSetInputOnly(e, i) == [e EXCEPT !.input = i]

\* the entry after the loop over hdev->inputs has found a registered
\* hid_input: it becomes shared->input and shared->enabled is set
SinkSet(e, i) == [e EXCEPT !.input = i, !.enabled = TRUE]

\* keyboard interface: the loop over hdev->inputs, then return 0
KbdSetSink(i) ==
    /\ pc[i] = "set_sink"
    /\ mem' = IF inputReg[i]
              THEN [mem EXCEPT ![cougar[i].shared] = SinkSet(@, i)]
              ELSE mem
    /\ pc' = [pc EXCEPT ![i] = "attached"]
    /\ snap' = IF snap.i = i THEN NoSnap ELSE snap
    /\ out' = NoOut
    /\ UNCHANGED <<config, cougar_mapping, cougar, devres, hw, inputReg,
                   cougar_udev_list, cougar_udev_list_lock, ev, after, calls, probes>>

\* vendor interface: hid_hw_open succeeds, return 0
VendorOpen(i) ==
    /\ pc[i] = "bound"
    /\ IsVendor(i)
    /\ hw' = [hw EXCEPT ![i] = "open"]
    /\ pc' = [pc EXCEPT ![i] = "attached"]
    /\ snap' = IF snap.i = i THEN NoSnap ELSE snap
    /\ out' = NoOut
    /\ UNCHANGED <<config, cougar_mapping, cougar, devres, inputReg, mem,
                   cougar_udev_list, cougar_udev_list_lock, ev, after, calls, probes>>

\* a faulty unwinding, in which no devres action runs
UnwindWithoutDevres(i) == "unbound"

\* what the driver core does with a device whose probe failed or whose
\* driver was removed: it runs the devres action if one is registered, and
\* frees the devm memory, struct cougar included, after it
UnwindTo(i) == IF devres[i] THEN "remove_shared" ELSE "unbound"

\* vendor interface: hid_hw_open fails; fail_stop_and_cleanup: hid_hw_stop,
\* hid_set_drvdata(hdev, NULL), return error; the driver core unwinds
VendorOpenFail(i) ==
    /\ pc[i] = "bound"
    /\ IsVendor(i)
    /\ hw' = [hw EXCEPT ![i] = "stopped"]
    /\ pc' = [pc EXCEPT ![i] = UnwindTo(i)]
    /\ after' = [after EXCEPT ![i] = "unbound"]
    /\ devres' = [devres EXCEPT ![i] = FALSE]
    /\ snap' = IF snap.i = i THEN [snap EXCEPT !.fail = "hid_hw_open"] ELSE snap
    /\ inputReg' = [inputReg EXCEPT ![i] = FALSE]
    /\ out' = NoOut
    /\ UNCHANGED <<config, cougar_mapping, cougar, mem, cougar_udev_list,
                   cougar_udev_list_lock, ev, calls, probes>>

\* any other interface: return 0
OtherDone(i) ==
    /\ pc[i] = "bound"
    /\ ~IsKeyboard(i) /\ ~IsVendor(i)
    /\ pc' = [pc EXCEPT ![i] = "attached"]
    /\ snap' = IF snap.i = i THEN NoSnap ELSE snap
    /\ out' = NoOut
    /\ UNCHANGED <<config, cougar_mapping, cougar, devres, hw, inputReg, mem,
                   cougar_udev_list, cougar_udev_list_lock, ev, after, calls, probes>>

(***************************************************************************)
(* cougar_remove_shared_data and cougar_release_shared_data.               *)
(***************************************************************************)
\* a faulty cougar_remove_shared_data, which keeps the pointer
SharedKept(i) == cougar[i].shared

\* cougar->shared once cougar_remove_shared_data has dropped the reference
SharedAfterPut(i) == NULL

\* cougar_remove_shared_data with cougar->shared == NULL: nothing
RemoveSharedNone(i) ==
    /\ pc[i] = "remove_shared"
    /\ cougar[i].shared = NULL
    /\ pc' = [pc EXCEPT ![i] = after[i]]
    /\ after' = [after EXCEPT ![i] = "none"]
    /\ calls' = [calls EXCEPT ![i] = Append(@, "release")]
    /\ out' = NoOut
    /\ UNCHANGED <<config, cougar_mapping, cougar, devres, hw, inputReg, mem,
                   cougar_udev_list, cougar_udev_list_lock, ev, snap, probes>>

\* kref_put that does not drop the last reference, cougar->shared = NULL
RemoveSharedPut(i) ==
    /\ pc[i] = "remove_shared"
    /\ cougar[i].shared # NULL
    /\ ~KrefPutReleases(mem[cougar[i].shared].kref)
    /\ mem' = [mem EXCEPT ![cougar[i].shared].kref = KrefPut(@)]
    /\ cougar' = [cougar EXCEPT ![i].shared = SharedAfterPut(i)]
    /\ pc' = [pc EXCEPT ![i] = after[i]]
    /\ after' = [after EXCEPT ![i] = "none"]
    /\ calls' = [calls EXCEPT ![i] = Append(@, "release")]
    /\ out' = NoOut
    /\ UNCHANGED <<config, cougar_mapping, devres, hw, inputReg, cougar_udev_list,
                   cougar_udev_list_lock, ev, snap, probes>>

\* kref_put that drops the last reference: it calls
\* cougar_release_shared_data, which has yet to take the mutex
RemoveSharedLast(i) ==
    /\ pc[i] = "remove_shared"
    /\ cougar[i].shared # NULL
    /\ KrefPutReleases(mem[cougar[i].shared].kref)
    /\ mem' = [mem EXCEPT ![cougar[i].shared].kref = KrefPut(@)]
    /\ pc' = [pc EXCEPT ![i] = "release"]
    /\ calls' = [calls EXCEPT ![i] = Append(@, "release")]
    /\ out' = NoOut
    /\ UNCHANGED <<config, cougar_mapping, cougar, devres, hw, inputReg,
                   cougar_udev_list, cougar_udev_list_lock, ev, after, snap, probes>>

\* cougar_release_shared_data: mutex_lock
ReleaseLock(i) ==
    /\ pc[i] = "release"
    /\ cougar_udev_list_lock = 0
    /\ cougar_udev_list_lock' = i
    /\ pc' = [pc EXCEPT ![i] = "release_locked"]
    /\ out' = NoOut
    /\ UNCHANGED <<config, cougar_mapping, cougar, devres, hw, inputReg, mem,
                   cougar_udev_list, ev, after, snap, calls, probes>>

\* cougar_release_shared_data: list_del, mutex_unlock
ReleaseListDel(i) ==
    /\ pc[i] = "release_locked"
    /\ InList(cougar[i].shared)
    /\ cougar_udev_list' = ListDel(cougar[i].shared)
    /\ cougar_udev_list_lock' = 0
    /\ pc' = [pc EXCEPT ![i] = "release_free"]
    /\ out' = NoOut
    /\ UNCHANGED <<config, cougar_mapping, cougar, devres, hw, inputReg, mem,
                   ev, after, snap, calls, probes>>

\* list_del of an entry that is not on the list (it was deleted before, and
\* its memory freed): the access through the poisoned links faults and the
\* thread dies with the mutex held, or the links are skipped and the mutex
\* is unlocked
ReleaseDelCorrupt(i) ==
    /\ pc[i] = "release_locked"
    /\ ~InList(cougar[i].shared)
    /\ \E oops \in BOOLEAN :
          /\ pc' = [pc EXCEPT ![i] = IF oops THEN "oops" ELSE "release_free"]
          /\ cougar_udev_list_lock' = IF oops THEN i ELSE 0
    /\ out' = NoOut
    /\ UNCHANGED <<config, cougar_mapping, cougar, devres, hw, inputReg, mem,
                   cougar_udev_list, ev, after, snap, calls, probes>>

\* kfree: the memory keeps what was written to it.  Its content is recorded
\* only while a pointer still refers to the memory, as nothing else can
\* read it before kzalloc overwrites it.
Kfree(e, referenced) == IF referenced THEN [e EXCEPT !.alloc = FALSE] ELSE FreeShared

\* cougar_release_shared_data: kfree(shared); back in
\* cougar_remove_shared_data, cougar->shared = NULL
ReleaseFree(i) ==
    /\ pc[i] = "release_free"
    /\ cougar' = [cougar EXCEPT ![i].shared = SharedAfterPut(i)]
    /\ mem' = [mem EXCEPT ![cougar[i].shared] =
                  Kfree(@, Referenced(cougar[i].shared, cougar_udev_list, cougar'))]
    /\ pc' = [pc EXCEPT ![i] = after[i]]
    /\ after' = [after EXCEPT ![i] = "none"]
    /\ out' = NoOut
    /\ UNCHANGED <<config, cougar_mapping, devres, hw, inputReg, cougar_udev_list,
                   cougar_udev_list_lock, ev, snap, calls, probes>>

\* the driver core, once the devres actions have run: it frees the devm
\* memory of the interface, struct cougar included
DevresFree(i) ==
    /\ pc[i] = "unbound"
    /\ cougar' = [cougar EXCEPT ![i] = NoCougar]
    /\ pc' = [pc EXCEPT ![i] = "detached"]
    /\ snap' = IF snap.i = i THEN NoSnap ELSE snap
    /\ calls' = [calls EXCEPT ![i] = <<>>]
    /\ mem' = DevDetached(mem, i)
    /\ out' = NoOut
    /\ UNCHANGED <<config, cougar_mapping, devres, hw, inputReg, cougar_udev_list,
                   cougar_udev_list_lock, ev, after, probes>>

\* how many times cougar_remove_shared_data runs on one struct cougar
MaxReleases == 2

Released(i) == Len(SelectSeq(calls[i], LAMBDA c : c = "release"))

\* cougar_remove_shared_data is called once more on a struct cougar that
\* it has already run on
ReleaseAgain(i) ==
    /\ pc[i] \in {"fail_stop", "unbound"}
    /\ Released(i) \in 1 .. (MaxReleases - 1)
    /\ after' = [after EXCEPT ![i] = pc[i]]
    /\ pc' = [pc EXCEPT ![i] = "remove_shared"]
    /\ out' = NoOut
    /\ UNCHANGED <<config, cougar_mapping, cougar, devres, hw, inputReg, mem,
                   cougar_udev_list, cougar_udev_list_lock, ev, snap, calls, probes>>

(***************************************************************************)
(* cougar_remove.  The HID core does not deliver reports of an interface   *)
(* while its probe or remove runs (driver_input_lock), so remove starts    *)
(* when no cougar_raw_event of the same interface is in flight.            *)
(***************************************************************************)
\* a faulty assignment, which leaves the entry enabled
DisabledNot(e) == e

\* the entry after "cougar->shared->enabled = false"
Disabled(e) == [e EXCEPT !.enabled = FALSE]

\* a faulty cougar_remove, which leaves shared->enabled as it is
RemoveWithoutDisable(i) ==
    /\ pc[i] = "attached"
    /\ ev[i].pc = "idle"
    /\ pc' = [pc EXCEPT ![i] = "rm_stop"]
    /\ out' = NoOut
    /\ UNCHANGED <<config, cougar_mapping, cougar, devres, hw, inputReg, mem,
                   cougar_udev_list, cougar_udev_list_lock, ev, after, snap, calls,
                   probes>>

\* if (cougar->shared) cougar->shared->enabled = false
RemoveDisable(i) ==
    /\ pc[i] = "attached"
    /\ ev[i].pc = "idle"
    /\ mem' = IF cougar[i].shared # NULL
              THEN [mem EXCEPT ![cougar[i].shared] = Disabled(@)]
              ELSE mem
    /\ calls' = IF cougar[i].shared # NULL
                THEN [calls EXCEPT ![i] = Append(@, "disable")]
                ELSE calls
    /\ pc' = [pc EXCEPT ![i] = "rm_stop"]
    /\ out' = NoOut
    /\ UNCHANGED <<config, cougar_mapping, cougar, devres, hw, inputReg,
                   cougar_udev_list, cougar_udev_list_lock, ev, after, snap, probes>>

\* if (cougar->special_intf) hid_hw_close(hdev); hid_hw_stop(hdev), which
\* unregisters the hid_input of the interface; the driver core unwinds
RemoveStop(i) ==
    /\ pc[i] = "rm_stop"
    /\ hw' = [hw EXCEPT ![i] = "stopped"]
    /\ inputReg' = [inputReg EXCEPT ![i] = FALSE]
    /\ pc' = [pc EXCEPT ![i] = UnwindTo(i)]
    /\ after' = [after EXCEPT ![i] = "unbound"]
    /\ devres' = [devres EXCEPT ![i] = FALSE]
    /\ out' = NoOut
    /\ UNCHANGED <<config, cougar_mapping, cougar, mem, cougar_udev_list,
                   cougar_udev_list_lock, ev, snap, calls, probes>>

(***************************************************************************)
(* cougar_raw_event.                                                       *)
(***************************************************************************)
\* data[k] of a report of the given size; a read past the report returns
\* whatever byte follows it in the buffer
Bytes == Codes \cup Actions

DataAt(data, k) == IF k < Len(data) THEN {data[k + 1]} ELSE Bytes

\* a faulty test, which does not look at shared->enabled
IgnoredButForEnabled(i) ==
    \/ ~cougar[i].special_intf
    \/ cougar[i].shared = NULL
    \/ mem[cougar[i].shared].input = NULL

\* the test that makes cougar_raw_event return 0 at once
Ignored(i) ==
    \/ ~cougar[i].special_intf
    \/ cougar[i].shared = NULL
    \/ mem[cougar[i].shared].input = NULL
    \/ ~mem[cougar[i].shared].enabled

\* a report arrives and is ignored: return 0
RawEventIgnore(i, data) ==
    /\ pc[i] = "attached"
    /\ ev[i].pc = "idle"
    /\ Ignored(i)
    /\ out' = [by |-> i, sent |-> <<>>, ret |-> "0"]
    /\ UNCHANGED <<config, cougar_mapping, pc, cougar, devres, hw, inputReg, mem,
                   cougar_udev_list, cougar_udev_list_lock, ev, after, snap, calls,
                   probes>>

\* a report arrives and passes the test: code and action are read
RawEventAccept(i, data) ==
    /\ pc[i] = "attached"
    /\ ev[i].pc = "idle"
    /\ ~Ignored(i)
    /\ \E c \in DataAt(data, COUGAR_FIELD_CODE), a \in DataAt(data, COUGAR_FIELD_ACTION) :
          ev' = [ev EXCEPT ![i] = [pc |-> "scan", data |-> data, code |-> c, action |-> a]]
    /\ out' = NoOut
    /\ UNCHANGED <<config, cougar_mapping, pc, cougar, devres, hw, inputReg, mem,
                   cougar_udev_list, cougar_udev_list_lock, after, snap, calls, probes>>

\* a faulty loop, which leaves out input_sync
EmittedWithoutSync(map, code, action, sink) ==
    LET k == Lookup(map, code)
    IN  IF k = 0 THEN <<>>
        ELSE << [call |-> "input_event", sink |-> sink, type |-> "EV_KEY",
                 key |-> map[k][2], value |-> action] >>

\* what the loop over cougar_mapping sends to the sink: input_event and
\* input_sync for the first match, nothing without one
Emitted(map, code, action, sink) ==
    LET k == Lookup(map, code)
    IN  IF k = 0 THEN <<>>
        ELSE << [call |-> "input_event", sink |-> sink, type |-> "EV_KEY",
                 key |-> map[k][2], value |-> action],
                [call |-> "input_sync", sink |-> sink] >>

\* the loop over cougar_mapping, input_event, input_sync, return 0
RawEventScan(i) ==
    /\ ev[i].pc = "scan"
    /\ ev' = [ev EXCEPT ![i] = NoEvent]
    /\ out' = [by |-> i,
               sent |-> Emitted(cougar_mapping, ev[i].code, ev[i].action,
                                mem[cougar[i].shared].input),
               ret |-> "0"]
    /\ UNCHANGED <<config, cougar_mapping, pc, cougar, devres, hw, inputReg, mem,
                   cougar_udev_list, cougar_udev_list_lock, after, snap, calls, probes>>

(***************************************************************************)
(* The driver as a whole.                                                  *)
(***************************************************************************)
Probe(i) ==
    \/ ProbeFailEarly(i)
    \/ ProbeStart(i)
    \/ BindJoin(i)
    \/ BindCreate(i)
    \/ BindNoMem(i)
    \/ BindUnlock(i)
    \/ BindUnlockNoMem(i)
    \/ BindDevmFail(i)
    \/ FailStop(i)
    \/ KbdFixG6(i)
    \/ KbdSetSink(i)
    \/ VendorOpen(i)
    \/ VendorOpenFail(i)
    \/ OtherDone(i)

Release(i) ==
    \/ RemoveSharedPut(i)
    \/ RemoveSharedLast(i)
    \/ ReleaseLock(i)
    \/ ReleaseListDel(i)
    \/ ReleaseFree(i)
    \/ DevresFree(i)

Remove(i) == RemoveDisable(i) \/ RemoveStop(i)

RawEvent(i) ==
    \/ \E data \in Payloads : RawEventIgnore(i, data) \/ RawEventAccept(i, data)
    \/ RawEventScan(i)

Step(i) == Probe(i) \/ Release(i) \/ Remove(i) \/ RawEvent(i)

\* where an interface is when none of its handlers is running
Idle == {"detached", "attached"}

\* where an interface is when none of its handlers is running, or its
\* handler has returned and the driver core is about to free its memory
Paused == Idle \cup {"fail_stop", "unbound"}

\* every interface other than i is at one of the places in rest
Others(i, rest) ==
    \A j \in Ifaces \ {i} : pc[j] \in rest /\ ev[j].pc = "idle"

\* a step of a handler of an interface that the scheduling lets run
Handlers(rest) ==
    \E i \in Ifaces :
        \/ Others(i, rest) /\ ProbeFailEarly(i)
        \/ Others(i, rest) /\ ProbeStart(i)
        \/ Others(i, rest) /\ BindJoin(i)
        \/ Others(i, rest) /\ BindCreate(i)
        \/ Others(i, rest) /\ BindNoMem(i)
        \/ Others(i, rest) /\ BindUnlock(i)
        \/ Others(i, rest) /\ BindUnlockNoMem(i)
        \/ Others(i, rest) /\ BindDevmFail(i)
        \/ Others(i, rest) /\ FailStop(i)
        \/ Others(i, rest) /\ KbdFixG6(i)
        \/ Others(i, rest) /\ KbdSetSink(i)
        \/ Others(i, rest) /\ VendorOpen(i)
        \/ Others(i, rest) /\ VendorOpenFail(i)
        \/ Others(i, rest) /\ OtherDone(i)
        \/ Others(i, rest) /\ RemoveSharedPut(i)
        \/ Others(i, rest) /\ RemoveSharedLast(i)
        \/ Others(i, rest) /\ ReleaseLock(i)
        \/ Others(i, rest) /\ ReleaseListDel(i)
        \/ Others(i, rest) /\ ReleaseFree(i)
        \/ Others(i, rest) /\ DevresFree(i)
        \/ Others(i, rest) /\ RemoveDisable(i)
        \/ Others(i, rest) /\ RemoveStop(i)
        \/ Others(i, rest) /\ \E data \in Payloads : RawEventIgnore(i, data)
        \/ Others(i, rest) /\ \E data \in Payloads : RawEventAccept(i, data)
        \/ Others(i, rest) /\ RawEventScan(i)

\* The handlers run one at a time, as they do when the host serializes
\* them: the USB core probes and disconnects the interfaces of a device
\* under the lock of the device.
Next == Handlers(Idle)

Spec == Init /\ [][Next]_vars

\* The handlers of different interfaces run concurrently: nothing but the
\* driver's own mutex orders them.
NextConc == \E i \in Ifaces : Step(i) \/ ReleaseDelCorrupt(i)

SpecConc == InitConc /\ [][NextConc]_vars

\* The handlers run one at a time, the interfaces go on while the driver
\* core unwinds one of them, and cougar_remove_shared_data may be called
\* again on a struct cougar it has already run on.
NextRelease ==
    \/ Handlers(Paused)
    \/ \E i \in Ifaces : Others(i, Paused) /\ ReleaseAgain(i)
    \/ \E i \in Ifaces : Others(i, Paused) /\ RemoveSharedNone(i)

SpecRelease == InitConc /\ [][NextRelease]_vars

\* The handlers that take the mutex, cougar_probe and cougar_remove with
\* the release that follows them, run concurrently; no report arrives.
LockStep(i) == Probe(i) \/ Release(i) \/ Remove(i) \/ ReleaseDelCorrupt(i)

NextLock == \E i \in Ifaces : LockStep(i)

\* a handler of interface i that has started goes on: the thread that runs
\* it is scheduled again and again, and the mutex is handed to a thread that
\* keeps asking for it.  Nothing obliges a new attach or detach to arrive.
Continue(i) == pc[i] \notin Idle /\ LockStep(i)

SpecFair ==
    /\ InitConc
    /\ [][NextLock]_vars
    /\ \A i \in Ifaces : SF_vars(Continue(i))

\* cougar_report_fixup on its own, applied to each of the descriptors
NextFixup == ReportFixup

SpecFixup == InitFixup /\ [][NextFixup]_vars

(***************************************************************************)
(* Properties.  The words of the specification (identity, holder, target   *)
(* key) are defined here on their own, not through the operators above.    *)
(***************************************************************************)
\* the prefix of a path: what is before its last '/', nothing without one
Prefix(p) == SubSeq(p, 1, StrRChr(p, "/"))

\* the interfaces a and b have the same identity
SameIdentity(a, b) ==
    /\ Prefix(phys[a]) # <<>>
    /\ Prefix(phys[a]) = Prefix(phys[b])

\* interface i passes through cougar_bind_shared_data with memory to spare
Acquires(i) == pc[i] = "bind" /\ pc'[i] \in {"bind_out", "bind_devm_fail"}

\* C1: acquire joins a registry entry, adding exactly 1 to its count, iff
\* its path and the entry's identity path have equal non-empty prefixes;
\* otherwise it appends a new entry with count 1, disabled, without sink.
C1_JoinsIffSamePrefix ==
    [][\A i \in Ifaces :
          Acquires(i) =>
            LET same == {k \in 1 .. Len(cougar_udev_list) :
                            SameIdentity(i, mem[cougar_udev_list[k]].dev)}
                s == cougar'[i].shared
            IN  IF same # {}
                THEN /\ \E k \in same : s = cougar_udev_list[k]
                     /\ mem'[s].kref = mem[s].kref + 1
                     /\ cougar_udev_list' = cougar_udev_list
                ELSE /\ ~InList(s)
                     /\ cougar_udev_list' = Append(cougar_udev_list, s)
                     /\ mem'[s].kref = 1
                     /\ ~mem'[s].enabled
                     /\ mem'[s].input = NULL]_vars

\* the interfaces that hold a reference to the entry in slot s
Holders(s) == {i \in Ifaces : pc[i] = "attached" /\ cougar[i].shared = s}

\* no attach and no detach is in progress
Quiet == \A i \in Ifaces : pc[i] \in Idle

\* C2: between attaches and detaches, an entry is in the registry exactly
\* while an interface that acquired it has not released it, and its count
\* is the number of these interfaces: N acquires and N releases leave it
\* out of the registry (an empty registry once all are detached), N
\* acquires and N-1 releases leave it in with count 1.
C2_CountIsHolders ==
    Quiet =>
      /\ \A k \in 1 .. Len(cougar_udev_list) :
            /\ Holders(cougar_udev_list[k]) # {}
            /\ mem[cougar_udev_list[k]].kref = Cardinality(Holders(cougar_udev_list[k]))
            /\ mem[cougar_udev_list[k]].alloc
            /\ \A j \in 1 .. Len(cougar_udev_list) :
                  cougar_udev_list[j] = cougar_udev_list[k] => j = k
      /\ \A i \in Ifaces :
            pc[i] = "attached" => cougar[i].shared # NULL /\ InList(cougar[i].shared)
      /\ (\A i \in Ifaces : pc[i] = "detached") => cougar_udev_list = <<>>

\* two interfaces acquired an entry, the one that created it has released
\* it, and the other holds it with count 1
C2_Witness ==
    /\ Quiet
    /\ \E i \in Ifaces, j \in Ifaces :
          /\ i # j
          /\ pc[i] = "attached" /\ pc[j] = "detached"
          /\ InList(cougar[i].shared)
          /\ mem[cougar[i].shared].dev = j
          /\ mem[cougar[i].shared].kref = 1

\* the cougar_raw_event of interface i returns having sent something
Emits(i) == ev[i].pc = "scan" /\ ev'[i].pc = "idle" /\ out'.sent # <<>>

\* C3: whatever the interleaving, the vendor interface's raw event sends
\* nothing to the sink once a detach of a sibling has disabled the entry,
\* and nothing while or after the keyboard that owns the sink is torn down.
C3_NoEmitAfterDisable ==
    [][\A i \in Ifaces :
          Emits(i) =>
            /\ mem[cougar[i].shared].enabled
            /\ out'.sent[1].sink # NULL
            /\ pc[out'.sent[1].sink] = "attached"
            /\ inputReg[out'.sent[1].sink]]_vars

\* the interface whose handler takes the step
Actor(i) == pc'[i] # pc[i] \/ ev'[i] # ev[i] \/ out'.by = i

\* C4: every step that changes the state of a registry entry (count,
\* enabled, sink, membership) and every step of cougar_raw_event, which
\* reads it, is taken by the interface that holds cougar_udev_list_lock.
C4_AccessUnderLock ==
    [][/\ Registry' # Registry =>
            \E i \in Ifaces :
                /\ Actor(i)
                /\ cougar_udev_list_lock = i \/ cougar_udev_list_lock' = i
       /\ \A i \in Ifaces :
            (ev'[i] # ev[i] \/ (out'.by = i /\ out' # out)) =>
                cougar_udev_list_lock = i]_vars

\* the binding of interface i is not the vendor interface, or has no
\* entry, or its entry is disabled or without sink
MustIgnore(i) ==
    \/ ~IsVendor(i)
    \/ cougar[i].shared = NULL
    \/ ~mem[cougar[i].shared].enabled
    \/ mem[cougar[i].shared].input = NULL

\* C5: a raw event on a binding that is not the vendor interface, has no
\* entry, or whose entry is disabled or without sink, sends nothing, changes
\* no state and returns 0, for any payload.
C5_IgnoredEventIsNoOp ==
    [][\A i \in Ifaces :
          (pc[i] = "attached" /\ ev[i].pc = "idle" /\ MustIgnore(i)) =>
            /\ ev'[i] = ev[i]
            /\ out'.by = i =>
                  /\ out' = [by |-> i, sent |-> <<>>, ret |-> "0"]
                  /\ UNCHANGED <<cougar_mapping, pc, cougar, devres, hw, inputReg, mem,
                                 cougar_udev_list, cougar_udev_list_lock>>]_vars

\* a vendor interface attached before its keyboard has set the sink, and a
\* report to it has been ignored
C5_Witness ==
    \E i \in Ifaces :
        /\ IsVendor(i) /\ pc[i] = "attached"
        /\ cougar[i].shared # NULL
        /\ mem[cougar[i].shared].input = NULL
        /\ out = [by |-> i, sent |-> <<>>, ret |-> "0"]

\* the codes of the key map and their target keys
KeyMapCodes ==
    {COUGAR_KEY_G1, COUGAR_KEY_G2, COUGAR_KEY_G3, COUGAR_KEY_G4, COUGAR_KEY_G5,
     COUGAR_KEY_G6, COUGAR_KEY_LOCK}

TargetKey(c) ==
    CASE c = COUGAR_KEY_G1 -> "KEY_F13"
      [] c = COUGAR_KEY_G2 -> "KEY_F14"
      [] c = COUGAR_KEY_G3 -> "KEY_F15"
      [] c = COUGAR_KEY_G4 -> "KEY_F16"
      [] c = COUGAR_KEY_G5 -> "KEY_F17"
      [] c = COUGAR_KEY_LOCK -> "KEY_SCREENLOCK"
      [] c = COUGAR_KEY_G6 -> IF cougar_g6_is_space # 0 THEN "KEY_SPACE" ELSE "KEY_F18"

\* one key event (key, a) and one sync to sink
KeyAndSync(key, a, sink) ==
    << [call |-> "input_event", sink |-> sink, type |-> "EV_KEY", key |-> key,
        value |-> a],
       [call |-> "input_sync", sink |-> sink] >>

\* C6: with the entry enabled and a sink set, a raw event on the vendor
\* binding with code c at offset 1 and action a at offset 2 is not ignored;
\* it sends one key event (targetKey(c), a) and one sync to the sink if c
\* is in the key map, nothing otherwise, returns 0 and changes no registry
\* state; targetKey(0x78) is SPACE with g6_is_space set, F18 without.
C6_MappedKeyThenSync ==
    [][\A i \in Ifaces :
          /\ (pc[i] = "attached" /\ ev[i].pc = "idle" /\ ~MustIgnore(i)) =>
                ~(out'.by = i /\ ev'[i] = ev[i])
          /\ (ev[i].pc = "scan" /\ ev'[i].pc = "idle" /\ Len(ev[i].data) >= 3) =>
                LET c == ev[i].data[2]
                    a == ev[i].data[3]
                    sink == mem[cougar[i].shared].input
                IN  /\ out' = [by |-> i,
                               sent |-> IF c \in KeyMapCodes
                                        THEN KeyAndSync(TargetKey(c), a, sink)
                                        ELSE <<>>,
                               ret |-> "0"]
                    /\ sink # NULL
                    /\ UNCHANGED <<mem, cougar_udev_list>>]_vars

\* G6 was pressed with g6_is_space off, and F18 went to the sink
C6_Witness ==
    /\ cougar_g6_is_space = 0
    /\ out.by # 0
    /\ out.sent # <<>>
    /\ out.sent[1].key = "KEY_F18"
    /\ out.sent[1].value = 1

\* the attach of interface i has failed in hid_hw_open and is unwound
RolledBack(i) == pc[i] = "unbound" /\ snap.i = i /\ snap.fail = "hid_hw_open"

\* C7: once a vendor attach that failed in hid_hw_open after a successful
\* acquire is unwound, the hardware of the interface is stopped, the
\* binding holds no entry and the registry is as it was before the attach.
C7_OpenFailureRestoresRegistry ==
    \A i \in Ifaces :
        RolledBack(i) =>
            /\ hw[i] = "stopped"
            /\ cougar[i].shared = NULL
            /\ Registry = snap.reg

\* a vendor attach that joined an entry has been rolled back
C7_Witness ==
    \E i \in Ifaces : RolledBack(i) /\ IsVendor(i) /\ snap.reg # <<>>

\* the binding of interface i, which acquired an entry, is destroyed: the
\* handler has returned and the devres actions have run
Destroyed(i) == pc[i] = "unbound"

\* C8 as stated: whatever the path, the destruction of a binding that holds
\* an entry calls disable and then release, each exactly once.
C8_DisableThenReleaseOnEveryPath ==
    \A i \in Ifaces : Destroyed(i) => calls[i] = <<"disable", "release">>

\* C8: the removal of an attached interface calls disable and then
\* release, each exactly once; the rollback of an attach after a failed
\* open calls release exactly once and does not call disable.
C8_DisableOnRemovalOnly ==
    \A i \in Ifaces :
        Destroyed(i) =>
            IF RolledBack(i)
            THEN calls[i] = <<"release">>
            ELSE calls[i] = <<"disable", "release">>

\* an attached interface that shares its entry with another has been removed
C8_Witness ==
    \E i \in Ifaces :
        /\ pc[i] = "unbound"
        /\ calls[i] = <<"disable", "release">>
        /\ cougar_udev_list # <<>>

\* C9: a release through a binding that has already released changes no
\* count, removes no entry and leaves every entry as it is.
C9_SecondReleaseIsNoOp ==
    [][\A i \in Ifaces :
          (pc[i] = "remove_shared" /\ Released(i) >= 1 /\ pc'[i] # pc[i]) =>
            /\ pc'[i] = after[i]
            /\ UNCHANGED <<mem, cougar_udev_list, cougar_udev_list_lock>>]_vars

\* a binding has released twice while another interface holds an entry of
\* the same identity
C9_Witness ==
    \E i \in Ifaces :
        /\ Released(i) = 2
        /\ \E k \in 1 .. Len(cougar_udev_list) :
              /\ mem[cougar_udev_list[k]].dev # i
              /\ pc[mem[cougar_udev_list[k]].dev] \in {"attached", "bound", "set_sink"}
              /\ SameIdentity(i, mem[cougar_udev_list[k]].dev)

\* C10: once the keyboard interface has set its sink on an entry, the
\* entry stays enabled for as long as that keyboard interface is attached.
C10_EnabledWhileKeyboardAttached ==
    \A i \in Ifaces :
        (/\ IsKeyboard(i)
         /\ pc[i] = "attached"
         /\ cougar[i].shared # NULL
         /\ mem[cougar[i].shared].input = i) =>
            mem[cougar[i].shared].enabled

\* keyboard k and vendor interface v of one device are the two interfaces
\* attached, each by its first attach, and k has a registered input
BothAttached(k, v) ==
    /\ IsKeyboard(k) /\ IsVendor(v)
    /\ SameIdentity(k, v)
    /\ pc[k] = "attached" /\ pc[v] = "attached"
    /\ \A j \in Ifaces \ {k, v} : pc[j] = "detached"
    /\ probes = 2
    /\ inputReg[k]

\* one entry, held by k and v, enabled, with the sink of k
PairedEntry(k, v) ==
    /\ cougar[k].shared # NULL
    /\ cougar[v].shared = cougar[k].shared
    /\ cougar_udev_list = <<cougar[k].shared>>
    /\ mem[cougar[k].shared].kref = 2
    /\ mem[cougar[k].shared].enabled
    /\ mem[cougar[k].shared].input = k

\* C11: keyboard-then-vendor and vendor-then-keyboard end, once both
\* attaches have succeeded, in one entry with count 2, enabled, with the
\* keyboard's sink; from there a raw event with a mapped code on the vendor
\* interface is not ignored and goes to that sink.
C11_AttachOrderIrrelevant ==
    [][\A k \in Ifaces, v \in Ifaces :
          /\ BothAttached(k, v)' => PairedEntry(k, v)'
          /\ (BothAttached(k, v) /\ ev[v].pc = "idle") =>
                ~(out'.by = v /\ ev'[v] = ev[v])
          /\ (/\ BothAttached(k, v)
              /\ ev[v].pc = "scan" /\ ev'[v].pc = "idle"
              /\ Len(ev[v].data) >= 3
              /\ ev[v].data[2] \in KeyMapCodes) =>
                out'.sent = KeyAndSync(TargetKey(ev[v].data[2]), ev[v].data[3], k)]_vars

\* the vendor interface attached first and created the entry, the keyboard
\* joined it, and a key of the vendor interface went to the keyboard's sink
C11_Witness ==
    \E k \in Ifaces, v \in Ifaces :
        /\ BothAttached(k, v)
        /\ mem[cougar[k].shared].dev = v
        /\ out.by = v
        /\ out.sent # <<>>
        /\ out.sent[1].sink = k

\* the attach of interface i has failed in cougar_bind_shared_data: no
\* memory for the entry, or devm_add_action failed
AcquireFailed(i) ==
    snap.i = i /\ snap.fail \in {"kzalloc", "devm_add_action"}

\* C12: when acquire fails during an attach, the attach returns the error
\* (it goes through fail_stop_and_cleanup and never on to the rest of the
\* probe), the binding holds no entry, the hardware of the interface ends
\* stopped and the registry is as it was before the attach.
C12_AcquireFailureRestoresRegistry ==
    [][\A i \in Ifaces :
          /\ AcquireFailed(i)' =>
                pc'[i] \in {"bind_out_nomem", "bind_devm_fail", "remove_shared",
                            "release", "release_locked", "release_free", "fail_stop"}
          /\ (AcquireFailed(i) /\ pc[i] = "fail_stop" /\ pc'[i] # pc[i]) =>
                /\ pc'[i] = "detached"
                /\ cougar[i].shared = NULL
                /\ cougar'[i].shared = NULL
                /\ hw'[i] = "stopped"
                /\ Registry' = snap.reg]_vars

\* an attach that had joined an entry fails in devm_add_action and has
\* given the reference back
C12_Witness ==
    \E i \in Ifaces :
        /\ pc[i] = "fail_stop"
        /\ snap.i = i /\ snap.fail = "devm_add_action"
        /\ snap.reg # <<>>
        /\ calls[i] = <<"release">>

\* a step writes the key map: cougar_fix_g6_mapping runs, or the table
\* differs afterwards
WritesKeyMap ==
    \/ cougar_mapping' # cougar_mapping
    \/ \E i \in Ifaces : pc[i] = "bound" /\ pc'[i] = "set_sink"

\* C13: the key map is written only at the entry of code 0x78, which
\* becomes SPACE or F18, and only while no binding holds a registry entry.
C13_KeyMapWrittenBeforeBindings ==
    [][WritesKeyMap =>
          /\ Len(cougar_mapping') = Len(cougar_mapping)
          /\ \A k \in 1 .. Len(cougar_mapping) :
                \/ cougar_mapping'[k] = cougar_mapping[k]
                \/ /\ cougar_mapping[k][1] = COUGAR_KEY_G6
                   /\ cougar_mapping'[k][1] = COUGAR_KEY_G6
                   /\ cougar_mapping'[k][2] \in {"KEY_SPACE", "KEY_F18"}
          /\ \A i \in Ifaces : cougar[i].shared = NULL]_vars

\* the 16-bit little-endian field at offsets 115 and 116
UsageCountField(buf) == buf[116] + 256 * buf[117]

\* the buffer with that field set to the maximum less one
Clamped(buf) ==
    [buf EXCEPT ![116] = (HID_MAX_USAGES - 1) % 256,
                ![117] = (HID_MAX_USAGES - 1) \div 256]

\* the fixup runs on a descriptor that has the field
FixupRuns == rdesc'.n = rdesc.n + 1 /\ rdesc.size >= 117

HoldsEntry(i) ==
    /\ pc[i] \in {"bind_out", "bind_devm_fail", "bound", "set_sink", "attached",
                  "rm_stop"}
    /\ cougar[i].shared # NULL

\* C15: whatever the interleaving of a release of the last reference with
\* an acquire for the same identity, the entry a binding holds has a count
\* of at least 1 and has not been deallocated.
C15_NoBindingToDeadEntry ==
    \A i \in Ifaces :
        HoldsEntry(i) =>
            /\ mem[cougar[i].shared].alloc
            /\ mem[cougar[i].shared].kref >= 1

\* C16: the interface whose path a registry entry is matched by
\* (shared->dev, the interface that created the entry) has not been
\* detached, so an acquire never compares against the path of a detached
\* interface.
C16_IdentityDeviceAttached ==
    \A k \in 1..Len(cougar_udev_list) :
        pc[mem[cougar_udev_list[k]].dev] # "detached"

\* the report of interface i is too short to hold the code and the action
ShortPayload(data) == Len(data) <= COUGAR_FIELD_ACTION

\* C17: a report shorter than 3 bytes is never read at offsets 1 and 2 (the
\* handler does not go on to the key map with bytes from beyond the report),
\* and the handler sends nothing to the sink and returns 0.
C17_ShortPayloadReadsAndEmitsNothing ==
    [][\A i \in Ifaces :
          /\ (ev[i].pc = "idle" /\ ev'[i].pc = "scan") => ~ShortPayload(ev'[i].data)
          /\ (ev[i].pc = "scan" /\ ev'[i].pc = "idle" /\ ShortPayload(ev[i].data))
                => (out'.sent = <<>> /\ out'.ret = "0")]_vars

\* no two keyboard interfaces belong to one device
OneKeyboardPerDevice ==
    \A i, j \in Ifaces :
        (i # j /\ IsKeyboard(i) /\ IsKeyboard(j)) => Prefix(phys[i]) # Prefix(phys[j])

\* entry s is enabled
EnabledEntry(s) == mem[s].alloc /\ InList(s) /\ mem[s].enabled

\* k is a keyboard interface that is attached, with its hardware started
\* and its hid_input registered, and that holds entry s
AttachedKeyboardOf(k, s) ==
    /\ k # NULL
    /\ IsKeyboard(k)
    /\ pc[k] = "attached"
    /\ hw[k] = "started"
    /\ inputReg[k]
    /\ cougar[k].shared = s

\* C18: with at most one keyboard interface per device, an enabled entry
\* has a sink, and the sink is that of a keyboard interface that is attached
\* with its hardware running; the sink that a detached keyboard leaves
\* behind is never enabled.
C18_EnabledSinkIsAttachedKeyboard ==
    OneKeyboardPerDevice =>
        \A s \in Slots :
            EnabledEntry(s) => AttachedKeyboardOf(mem[s].input, s)

\* the keyboard of one device is attached and its entry is enabled with its
\* sink, while the keyboard of another device has detached and its sink is
\* left, disabled, on the entry that the vendor interface keeps alive
C18_Witness ==
    /\ OneKeyboardPerDevice
    /\ \E s \in Slots : EnabledEntry(s) /\ AttachedKeyboardOf(mem[s].input, s)
    /\ \E s \in Slots, k, v \in Ifaces :
          /\ mem[s].alloc /\ InList(s)
          /\ mem[s].input = k /\ IsKeyboard(k) /\ pc[k] = "detached"
          /\ ~mem[s].enabled
          /\ IsVendor(v) /\ pc[v] = "attached" /\ cougar[v].shared = s

\* C19: no two entries of the registry have identities that match (paths
\* of their creators with the same non-empty prefix), and so the interfaces
\* of one device that are attached together hold one and the same entry.
C19_OneEntryPerDevice ==
    /\ \A k, l \in 1..Len(cougar_udev_list) :
          k # l => ~SameIdentity(mem[cougar_udev_list[k]].dev,
                                 mem[cougar_udev_list[l]].dev)
    /\ \A i, j \in Ifaces :
          (pc[i] = "attached" /\ pc[j] = "attached" /\ SameIdentity(i, j))
              => cougar[i].shared = cougar[j].shared

\* interface i is about to call mutex_lock
Waiting(i) == pc[i] \in {"bind", "release"}

\* where the code is between mutex_lock and mutex_unlock
Locked == {"bind_out", "bind_out_nomem", "bind_devm_fail", "release_locked", "oops"}

\* the mutex is held exactly by a handler that is between its mutex_lock and
\* its mutex_unlock
LockHeldInside ==
    /\ \A i \in Ifaces : cougar_udev_list_lock = i <=> pc[i] \in Locked
    /\ cougar_udev_list_lock \in Ifaces \cup {0}

\* C20: the mutex is never asked for by the handler that holds it and is
\* unlocked on every way out of cougar_bind_shared_data, the inline release
\* after a failed devm_add_action included; no handler waits for it for
\* ever: under fair scheduling each handler that asks for it gets it.
C20_LockReleasedAndGranted ==
    /\ [](LockHeldInside)
    /\ \A i \in Ifaces : Waiting(i) ~> (cougar_udev_list_lock = i)

====
